---- MODULE Spec2Model ----
(***************************************************************************)
(* A model of the pwebby image gallery (src/app.py): the database shim     *)
(* with its PostgreSQL-to-SQLite fallback, the images table of each        *)
(* backend, the HTTP handlers, and the populate worker threads with the    *)
(* shared progress record.                                                 *)
(***************************************************************************)
EXTENDS Integers, Sequences, FiniteSets, TLC

\* ------------------------------------------------------------- bounds
\* Rows the upload handlers may insert into one backend's table in a run.
MaxInserts == 2
\* Inserts that may receive the timestamp of the row inserted before them.
MaxTies == 1
\* Greatest page number requested from the gallery.
MaxPage == 3
\* Greatest configured page size (DEFAULT_PAGINATION of the environment).
MaxPerPage == 2
\* Greatest id a delete request names.
MaxDeleteId == 1
\* Greatest number of rows a table holds when the gallery starts.
MaxSeed == 1
\* Populate threads a run may start.
MaxThreads == 2
\* Greatest target a populate request names.
MaxTarget == 2
\* Greatest number of rows of the dataset CSV.
MaxCsvRows == 2
\* Greatest number of rows above the limit in a table to be trimmed.
MaxOver == 2
\* Greatest --target of populate_gallery.py, and how far below zero a
\* --target goes.
MaxUploadTarget == 3
MaxNegativeTarget == 1
\* Greatest --workers of populate_gallery.py.
MaxPool == 2
\* Greatest value of attempt at which populate_gallery.py submits a batch.
MaxAttempt == 6

\* ------------------------------------------------- program constants
\* LIMIT 100 of maintain_image_limit's sub-select.
ImageLimit == 100

Backends == {"pg", "sqlite"}

VARIABLES
    USE_SQLITE,          \* the module-global flag (app.py:60)
    DEFAULT_PAGINATION,  \* the configured page size (app.py:51)
    images,              \* backend -> the rows of its images table
    nextId,              \* backend -> the next value of the id sequence
    firstId,             \* backend -> the value of the id sequence at start
    clock,               \* the database clock (CURRENT_TIMESTAMP)
    resp,                \* the response of the request handled last
    connLog,             \* the get_db_connection calls of the last step,
                         \* each with what its statements gave
    uploadsInARow,       \* backend -> uploads into it since another write
    populate_progress,   \* the module-global progress record (app.py:455)
    workers,             \* the populate threads started, in start order
    cli,                 \* the db_manager.py run made last
    DATABASE_TYPE,       \* the DATABASE_TYPE variable of the environment
    schema,              \* backend -> what its database holds of the
                         \* images table and its upload_date index
    script,              \* the init_db.py or quick_init_db.py run made last
    uploader,            \* the run of populate_gallery.py main
    setup                \* the host and the run of prepare_host.py on it

vars == <<USE_SQLITE, DEFAULT_PAGINATION, images, nextId, firstId, clock,
          resp, connLog, uploadsInARow, populate_progress, workers, cli,
          DATABASE_TYPE, schema, script, uploader, setup>>

\* What only populate_gallery.py and prepare_host.py touch.
toolVars == <<uploader, setup>>

\* What only the standalone scripts and the start of the application touch.
hostVars == <<DATABASE_TYPE, schema, script, toolVars>>

\* What the gallery's request handlers leave alone.
populateVars == <<populate_progress, workers, cli, hostVars>>

\* ------------------------------------------------------ small helpers
Min(a, b) == IF a < b THEN a ELSE b
Max(a, b) == IF a > b THEN a ELSE b

\* ------------------------------------------------- get_db_connection
\* A get_db_connection that would not record the fallback: the flag stays
\* as it was when the PostgreSQL connect fails, so the `if USE_SQLITE` branch
\* is skipped and the function falls off its end. C5 is sensitive to it.
GetDbConnection_KeepsFlag(flag, pgOk, sqOk) ==
    IF ~flag /\ pgOk
    THEN [conn |-> "pg", flag |-> flag, flagBefore |-> flag,
          triedPg |-> TRUE, triedSqlite |-> FALSE]
    ELSE IF flag
         THEN [conn |-> IF sqOk THEN "sqlite" ELSE "none",
               flag |-> flag, flagBefore |-> flag,
               triedPg |-> FALSE, triedSqlite |-> TRUE]
         ELSE [conn |-> "none", flag |-> flag, flagBefore |-> flag,
               triedPg |-> TRUE, triedSqlite |-> FALSE]

\* One call of get_db_connection: `flag` is USE_SQLITE at the call, pgOk and
\* sqOk say whether psycopg2.connect and sqlite3.connect would succeed.
\* The result names the backend of the connection returned ("none" for
\* None), the flag after the call, and which connects were attempted.
GetDbConnection(flag, pgOk, sqOk) ==
    IF ~flag /\ pgOk
    THEN [conn |-> "pg", flag |-> flag, flagBefore |-> flag,
          triedPg |-> TRUE, triedSqlite |-> FALSE]
    ELSE LET flag2 == IF ~flag THEN TRUE ELSE flag IN
         IF flag2
         THEN [conn |-> IF sqOk THEN "sqlite" ELSE "none",
               flag |-> flag2, flagBefore |-> flag,
               triedPg |-> ~flag, triedSqlite |-> TRUE]
         ELSE [conn |-> "none", flag |-> flag2, flagBefore |-> flag,
               triedPg |-> ~flag, triedSqlite |-> FALSE]

\* The outcomes of a call made while USE_SQLITE is `flag`, over what the two
\* connects may do.
Connections(flag) ==
    {GetDbConnection(flag, pgOk, sqOk) : pgOk \in BOOLEAN, sqOk \in BOOLEAN}

\* An entry of connLog: the call and what the statements run on its
\* connection gave ("none" when none was run).
Logged(c, e) == [call |-> c, stmt |-> e]

\* --------------------------------------------------------- statements
\* The DB-API parameter style a backend's driver accepts: sqlite3 takes
\* qmark ("?"), psycopg2 takes format ("%s"). A statement without
\* parameters ("none") runs on both.
ParamStyle(conn) == IF conn = "sqlite" THEN "qmark" ELSE "format"

\* What cur.execute ... conn.commit() give: q is what the server does with
\* a well-formed statement ("ok", "error": the statement fails and the
\* connection stays usable, "lost": the connection breaks); a statement
\* written in the other driver's parameter style is a syntax error.
ExecResult(conn, style, q) ==
    IF style # "none" /\ style # ParamStyle(conn)
    THEN "syntax"
    ELSE q

QueryOutcomes == {"ok", "error", "lost"}

\* What executing a statement of the given style on `conn` may give.
StatementResults(conn, style) ==
    {ExecResult(conn, style, q) : q \in QueryOutcomes}

\* ------------------------------------------------------------ the table
\* ORDER BY upload_date DESC: a row comes before another when its timestamp
\* is greater; rows of equal timestamp come in an order the database picks
\* (tb: by ascending or by descending id).
Before(a, b, tb) ==
    \/ a.ts > b.ts
    \/ a.ts = b.ts /\ (IF tb = "asc" THEN a.id < b.id ELSE a.id > b.id)

TieBreaks == {"asc", "desc"}

\* The ids of `rows` in the order of ORDER BY upload_date DESC.
RECURSIVE OrderByUploadDateDesc(_, _)
OrderByUploadDateDesc(rows, tb) ==
    IF rows = {} THEN << >>
    ELSE LET first == CHOOSE r \in rows :
                         \A s \in rows : s = r \/ Before(r, s, tb)
         IN  <<first.id>> \o OrderByUploadDateDesc(rows \ {first}, tb)

\* SELECT ... ORDER BY upload_date DESC LIMIT lim OFFSET off, as the sequence
\* of the ids of the rows returned.
SelectPage(rows, lim, off, tb) ==
    SubSeq(OrderByUploadDateDesc(rows, tb), off + 1,
           Min(Cardinality(rows), off + lim))

\* SELECT ... ORDER BY upload_date DESC, all rows.
SelectAll(rows, tb) == OrderByUploadDateDesc(rows, tb)

\* DELETE FROM images WHERE id NOT IN (SELECT id FROM images ORDER BY
\* upload_date DESC LIMIT 100): the sets of rows the statement may leave.
\* Rows older than the 100th are deleted; among rows sharing the timestamp
\* at the cut the database picks which ones the sub-select returns.
OldestStamp(rows) ==
    CHOOSE t \in {r.ts : r \in rows} : \A r \in rows : t <= r.ts

RECURSIVE DropOldest(_, _)
DropOldest(rows, k) ==
    IF k <= 0 THEN {rows}
    ELSE LET Old == {r \in rows : r.ts = OldestStamp(rows)} IN
         IF Cardinality(Old) <= k
         THEN DropOldest(rows \ Old, k - Cardinality(Old))
         ELSE {rows \ X : X \in {Y \in SUBSET Old : Cardinality(Y) = k}}

\* A sub-select that keeps one row fewer. C23 is sensitive to it.
KeepSets_OneFewer(rows) ==
    DropOldest(rows, Cardinality(rows) - (ImageLimit - 1))

KeepSets(rows) == DropOldest(rows, Cardinality(rows) - ImageLimit)

\* maintain_image_limit over the connection of call c, its DELETE giving e:
\* the tables it may leave. Every exception is caught and printed, and
\* without a connection nothing is done.
MaintainImageLimit(imgs, c, e) ==
    IF c.conn = "none" \/ e # "ok"
    THEN {imgs}
    ELSE {[imgs EXCEPT ![c.conn] = K] : K \in KeepSets(imgs[c.conn])}

\* The outcomes [images, flag, log] of maintain_image_limit called while
\* USE_SQLITE is `flag`, over what its connection and its statement may do.
MaintainOutcomes(imgs, flag) ==
    UNION {IF c.conn = "none"
           THEN {[images |-> imgs, flag |-> c.flag, log |-> Logged(c, "none")]}
           ELSE UNION {{[images |-> i, flag |-> c.flag, log |-> Logged(c, e)] :
                          i \in MaintainImageLimit(imgs, c, e)} :
                       e \in StatementResults(c.conn, "none")} :
           c \in Connections(flag)}

\* ----------------------------------------------------------- uploads
\* File names are sequences of characters over a small alphabet.
Lower(ch) == IF ch = "J" THEN "j" ELSE IF ch = "X" THEN "x" ELSE ch

LowerSeq(s) == [i \in 1..Len(s) |-> Lower(s[i])]

\* filename.rsplit('.', 1)[1].lower() if '.' in filename else ''
FileExtension(name) ==
    LET dots == {i \in 1..Len(name) : name[i] = "."} IN
    IF dots = {} THEN << >>
    ELSE LET last == CHOOSE i \in dots : \A j \in dots : j <= i
         IN  LowerSeq(SubSeq(name, last + 1, Len(name)))

\* ALLOWED_EXTENSIONS (app.py:50), here the one extension "j".
ALLOWED_EXTENSIONS == {<<"j">>}

\* The uploaded file parts the model sends: present says whether the form
\* has a 'file' part, decodes whether PIL opens and verifies the payload.
\* NoFile is a request without the part.
FileNames ==
    {<< >>, <<"j">>, <<"x", ".", "j">>, <<"x", ".", "J">>, <<"j", ".", "x">>,
     <<"x", ".", "j", ".", "x">>}

NoFile == [present |-> FALSE, filename |-> << >>, decodes |-> FALSE]

Files ==
    {NoFile} \cup [present : {TRUE}, filename : FileNames, decodes : BOOLEAN]

\* A validate_image without the extension test. C8 is sensitive to it.
validate_image_AnyExtension(file) ==
    IF file.filename = << >> THEN <<FALSE, "No file selected">>
    ELSE IF ~file.decodes THEN <<FALSE, "Invalid image file">>
    ELSE <<TRUE, "Valid image">>

\* validate_image: <<is_valid, message>>.
validate_image(file) ==
    IF file.filename = << >> THEN <<FALSE, "No file selected">>
    ELSE IF FileExtension(file.filename) \notin ALLOWED_EXTENSIONS
    THEN <<FALSE, "Invalid file type">>
    ELSE IF ~file.decodes THEN <<FALSE, "Invalid image file">>
    ELSE <<TRUE, "Valid image">>

\* ---------------------------------------------------------- responses
\* The navigation values index passes to its template. None is the empty
\* sequence, a page number n is <<n>>.
None == << >>

Nav(page, total_pages) ==
    [has_prev |-> page > 1,
     has_next |-> page < total_pages,
     prev_page |-> IF page > 1 THEN <<page - 1>> ELSE None,
     next_page |-> IF page < total_pages THEN <<page + 1>> ELSE None]

\* The navigation values of a response that is not the gallery page.
NoNav == [has_prev |-> FALSE, has_next |-> FALSE,
          prev_page |-> None, next_page |-> None]

\* What a handler answers: the status code, the category of the message
\* flashed ("none" when nothing is flashed), what the body is, whether an
\* exception left the handler, and the handler's results.
Response(h, code, flash, body) ==
    [handler |-> h, code |-> code, flash |-> flash, body |-> body,
     escaped |-> FALSE, image_id |-> 0, page |-> 0, listed |-> << >>,
     total_images |-> 0, total_pages |-> 0, nav |-> NoNav, file |-> NoFile]

\* Whether the upload handlers may still insert into a backend's table.
CanInsert(b) == nextId[b] - firstId[b] < MaxInserts

\* The timestamps CURRENT_TIMESTAMP may give the next row: the clock has
\* advanced since the last insert, or (a coarse or stepped clock) it has not.
TieCount(rows) == Cardinality(rows) - Cardinality({r.ts : r \in rows})

NextStamps(rows) ==
    {clock + 1} \cup
    (IF TieCount(rows) < MaxTies /\ \E r \in rows : r.ts = clock
     THEN {clock} ELSE {})

\* INSERT INTO images (...) VALUES (...) and commit, on backend b at time ts.
InsertRow(imgs, b, ts) ==
    [imgs EXCEPT ![b] = @ \cup {[id |-> nextId[b], ts |-> ts]}]

\* ------------------------------------------------------- POST /upload
\* The part of upload() and of api_upload() after validation: connect,
\* INSERT with %s placeholders, commit, maintain_image_limit, and the
\* response `ok` with the new id. Without a connection the response is
\* `noconn`; when the INSERT or the commit raises it is `failed`, or
\* `raised` when the except branch itself raises: upload() calls
\* conn.rollback() there, which raises on a connection that broke.
StoreUpload(ok, noconn, failed, raised) ==
    \E c \in Connections(USE_SQLITE) :
      IF c.conn = "none"
      THEN /\ resp' = noconn
           /\ USE_SQLITE' = c.flag
           /\ connLog' = <<Logged(c, "none")>>
           /\ UNCHANGED <<images, nextId, clock, uploadsInARow>>
      ELSE \E e \in StatementResults(c.conn, "format") :
        IF e = "ok"
        THEN /\ CanInsert(c.conn)
             /\ \E ts \in NextStamps(images[c.conn]) :
                  \E m \in MaintainOutcomes(InsertRow(images, c.conn, ts),
                                            c.flag) :
                    /\ images' = m.images
                    /\ USE_SQLITE' = m.flag
                    /\ connLog' = <<Logged(c, e), m.log>>
                    /\ clock' = ts
             /\ nextId' = [nextId EXCEPT ![c.conn] = @ + 1]
             /\ uploadsInARow' = [uploadsInARow EXCEPT ![c.conn] = @ + 1]
             /\ resp' = [ok EXCEPT !.image_id = nextId[c.conn]]
        ELSE /\ resp' = IF e = "lost" THEN raised ELSE failed
             /\ USE_SQLITE' = c.flag
             /\ connLog' = <<Logged(c, e)>>
             /\ UNCHANGED <<images, nextId, clock, uploadsInARow>>

\* upload(), POST: a request without the file part or with a file that
\* validate_image rejects is flashed and redirected back to the form.
UploadFrom(files) ==
    /\ \E file \in files :
         LET R(code, flash, body) ==
               [Response("upload", code, flash, body) EXCEPT !.file = file]
         IN  IF ~file.present \/ ~validate_image(file)[1]
             THEN /\ resp' = R(302, "error", "redirect_upload")
                  /\ connLog' = << >>
                  /\ UNCHANGED <<USE_SQLITE, images, nextId, clock,
                                 uploadsInARow>>
             ELSE StoreUpload(R(302, "success", "redirect_index"),
                              R(200, "error", "upload_form"),
                              R(200, "error", "upload_form"),
                              [R(500, "none", "exception")
                                 EXCEPT !.escaped = TRUE])
    /\ UNCHANGED <<DEFAULT_PAGINATION, firstId, populateVars>>

Upload == UploadFrom(Files)

\* An api_upload that would answer 500 where the handler answers 400. C10
\* is sensitive to it.
ApiUploadFrom_Validation500(files) ==
    /\ \E file \in files :
         LET R(code, body) ==
               [Response("api_upload", code, "none", body) EXCEPT !.file = file]
         IN  IF ~file.present \/ ~validate_image(file)[1]
             THEN /\ resp' = R(500, "json_error")
                  /\ connLog' = << >>
                  /\ UNCHANGED <<USE_SQLITE, images, nextId, clock,
                                 uploadsInARow>>
             ELSE StoreUpload(R(201, "json_ok"), R(500, "json_error"),
                              R(500, "json_error"), R(500, "json_error"))
    /\ UNCHANGED <<DEFAULT_PAGINATION, firstId, populateVars>>

\* --------------------------------------------------- POST /api/upload
\* api_upload: validation answers 400; a stored image answers 201 with the
\* id; any exception, and no connection, answer 500. There is no rollback
\* in its except branch.
ApiUploadFrom(files) ==
    /\ \E file \in files :
         LET R(code, body) ==
               [Response("api_upload", code, "none", body) EXCEPT !.file = file]
         IN  IF ~file.present \/ ~validate_image(file)[1]
             THEN /\ resp' = R(400, "json_error")
                  /\ connLog' = << >>
                  /\ UNCHANGED <<USE_SQLITE, images, nextId, clock,
                                 uploadsInARow>>
             ELSE StoreUpload(R(201, "json_ok"), R(500, "json_error"),
                              R(500, "json_error"), R(500, "json_error"))
    /\ UNCHANGED <<DEFAULT_PAGINATION, firstId, populateVars>>

ApiUpload == ApiUploadFrom(Files)

\* ------------------------------------------------- POST /delete/<id>
\* delete_image: DELETE ... WHERE id = %s, commit, flash; without a
\* connection nothing is flashed. The redirect to the gallery follows in
\* every case.
DeleteImage ==
    /\ \E image_id \in 0..MaxDeleteId, c \in Connections(USE_SQLITE) :
         LET R(flash) == [Response("delete_image", 302, flash, "redirect_index")
                            EXCEPT !.image_id = image_id]
         IN  /\ USE_SQLITE' = c.flag
             /\ IF c.conn = "none"
                THEN /\ resp' = R("none")
                     /\ connLog' = <<Logged(c, "none")>>
                     /\ UNCHANGED <<images, uploadsInARow>>
                ELSE \E e \in StatementResults(c.conn, "format") :
                  /\ connLog' = <<Logged(c, e)>>
                  /\ IF e = "ok"
                     THEN /\ images' = [images EXCEPT ![c.conn] =
                                           {r \in @ : r.id # image_id}]
                          /\ uploadsInARow' =
                               IF images'[c.conn] = images[c.conn]
                               THEN uploadsInARow
                               ELSE [uploadsInARow EXCEPT ![c.conn] = 0]
                          /\ resp' = R("success")
                     ELSE /\ resp' = R("error")
                          /\ UNCHANGED <<images, uploadsInARow>>
    /\ UNCHANGED <<DEFAULT_PAGINATION, nextId, firstId, clock, populateVars>>

\* --------------------------------------------------- POST /delete_all
DeleteAll ==
    /\ \E c \in Connections(USE_SQLITE) :
         LET R(flash) == Response("delete_all", 302, flash, "redirect_index")
         IN  /\ USE_SQLITE' = c.flag
             /\ IF c.conn = "none"
                THEN /\ resp' = R("none")
                     /\ connLog' = <<Logged(c, "none")>>
                     /\ UNCHANGED <<images, uploadsInARow>>
                ELSE \E e \in StatementResults(c.conn, "none") :
                  /\ connLog' = <<Logged(c, e)>>
                  /\ IF e = "ok"
                     THEN /\ images' = [images EXCEPT ![c.conn] = {}]
                          /\ uploadsInARow' =
                               [uploadsInARow EXCEPT ![c.conn] = 0]
                          /\ resp' = R("success")
                     ELSE /\ resp' = R("error")
                          /\ UNCHANGED <<images, uploadsInARow>>
    /\ UNCHANGED <<DEFAULT_PAGINATION, nextId, firstId, clock, populateVars>>

\* ------------------------------------------------ GET / and /page/<n>
\* A page count that rounds down. C6 is sensitive to it.
TotalPages_Floor(total_images, per_page) == total_images \div per_page

\* total_pages = (total_images + per_page - 1) // per_page
TotalPages(total_images, per_page) ==
    (total_images + per_page - 1) \div per_page

\* The page query: PostgreSQL rejects a negative OFFSET ("offset": the
\* statement raises on a healthy database), SQLite reads it as 0.
PageQueryResult(conn, offset, e) ==
    IF offset < 0 /\ conn = "pg" /\ e = "ok" THEN "offset" ELSE e

\* index over connection c: COUNT(*), then the page's rows with the
\* placeholder style chosen by USE_SQLITE; an exception is flashed and the
\* template is rendered with what was computed before it. The outcomes
\* [resp, stmt] over what the two statements may do.
IndexOutcomes(page, c) ==
    LET per_page == DEFAULT_PAGINATION
        offset == (page - 1) * per_page
        total_images == Cardinality(images[c.conn])
        total_pages == TotalPages(total_images, per_page)
        style == IF c.flag THEN "qmark" ELSE "format"
        base == [Response("index", 200, "none", "gallery")
                   EXCEPT !.page = page, !.nav = Nav(page, 0)]
        counted == [base EXCEPT !.total_images = total_images,
                                !.total_pages = total_pages,
                                !.nav = Nav(page, total_pages)]
    IN  IF c.conn = "none" THEN {[resp |-> base, stmt |-> "none"]}
        ELSE {[resp |-> [base EXCEPT !.flash = "error"], stmt |-> e] :
                e \in StatementResults(c.conn, "none") \ {"ok"}}
             \cup
             {LET r == PageQueryResult(c.conn, offset, e2) IN
              IF r # "ok"
              THEN [resp |-> [counted EXCEPT !.flash = "error"], stmt |-> r]
              ELSE [resp |-> [counted EXCEPT !.listed =
                                SelectPage(images[c.conn], per_page,
                                           Max(offset, 0), tb)],
                    stmt |-> "ok"] :
                e2 \in StatementResults(c.conn, style), tb \in TieBreaks}

IndexOf(pages) ==
    /\ \E page \in pages, c \in Connections(USE_SQLITE) :
         /\ USE_SQLITE' = c.flag
         /\ \E o \in IndexOutcomes(page, c) :
              /\ resp' = o.resp
              /\ connLog' = <<Logged(c, o.stmt)>>
    /\ UNCHANGED <<DEFAULT_PAGINATION, images, nextId, firstId, clock,
                   uploadsInARow, populateVars>>

Index == IndexOf(0..MaxPage)

\* ---------------------------------------------------- GET /api/images
\* api_images over connection c: in SQLite mode the rows of a plain cursor
\* are tuples, so row['id'] raises for the first row and the handler
\* answers 500; in PostgreSQL mode the RealDictCursor rows are returned.
ApiImagesOutcomes(c) ==
    LET failed == Response("api_images", 500, "none", "json_error") IN
    IF c.conn = "none" THEN {[resp |-> failed, stmt |-> "none"]}
    ELSE {[resp |-> IF e # "ok" THEN failed
                    ELSE IF c.flag /\ images[c.conn] # {} THEN failed
                    ELSE [Response("api_images", 200, "none", "json_ok")
                            EXCEPT !.listed = SelectAll(images[c.conn], tb),
                                   !.total_images = Cardinality(images[c.conn])],
           stmt |-> e] :
            e \in StatementResults(c.conn, "none"), tb \in TieBreaks}

ApiImages ==
    /\ \E c \in Connections(USE_SQLITE) :
         /\ USE_SQLITE' = c.flag
         /\ \E o \in ApiImagesOutcomes(c) :
              /\ resp' = o.resp
              /\ connLog' = <<Logged(c, o.stmt)>>
    /\ UNCHANGED <<DEFAULT_PAGINATION, images, nextId, firstId, clock,
                   uploadsInARow, populateVars>>

\* ---------------------------------------------------- the populate job
Progress(current, total, status, message, uploaded) ==
    [current |-> current, total |-> total, status |-> status,
     message |-> message, uploaded |-> uploaded]

\* A populate thread: where it is in populate_images, the target its
\* closure captured, and its local variables.
Worker(target) ==
    [pc |-> "start", target |-> target, uploaded_count |-> 0, attempts |-> 0,
     max_attempts |-> 0, conn |-> "none", rows |-> 0]

Running(w) == w.pc \notin {"done", "crashed"}

RunningWorkers == {i \in 1..Len(workers) : Running(workers[i])}

galleryVars == <<USE_SQLITE, DEFAULT_PAGINATION, images, nextId, firstId,
                 clock, connLog, uploadsInARow, cli, hostVars>>

\* POST /api/populate: reset the progress record and start a thread.
StartPopulate ==
    /\ Len(workers) < MaxThreads
    /\ \E target \in 0..MaxTarget :
         /\ populate_progress' =
              Progress(0, target, "running", "starting", 0)
         /\ workers' = Append(workers, Worker(target))
         /\ resp' = [Response("start_populate", 200, "none", "json_ok")
                       EXCEPT !.total_images = target]
    /\ UNCHANGED galleryVars

\* POST /api/populate/stop: set the status flag.
StopPopulate ==
    /\ populate_progress' = [populate_progress EXCEPT
                               !.status = "stopped", !.message = "stopped"]
    /\ resp' = Response("stop_populate", 200, "none", "json_ok")
    /\ UNCHANGED <<galleryVars, workers>>

\* populate_images up to the loop: load the CSV and set the counters. When
\* the file is missing or unreadable the outer except branch runs: it sets
\* status 'error', then 'completed', then reads uploaded_count, which was
\* never assigned, and the NameError ends the thread.
WorkerLoad(i) ==
    /\ workers[i].pc = "start"
    /\ \E loaded \in BOOLEAN, rows \in 0..MaxCsvRows :
         IF loaded
         THEN /\ workers' = [workers EXCEPT
                   ![i].pc = "loop",
                   ![i].rows = rows,
                   ![i].max_attempts = Min(rows, workers[i].target * 2)]
              /\ UNCHANGED populate_progress
         ELSE /\ workers' = [workers EXCEPT ![i].pc = "crashed"]
              /\ populate_progress' = [populate_progress EXCEPT
                   !.status = "completed", !.message = "failed"]
    /\ UNCHANGED <<galleryVars, resp>>

\* A loop head without the check of the status flag. C4 is sensitive to it.
WorkerCheck_IgnoresFlag(i) ==
    LET w == workers[i] IN
    /\ w.pc = "loop"
    /\ IF w.uploaded_count < w.target /\ w.attempts < w.max_attempts
       THEN /\ workers' = [workers EXCEPT ![i].pc = "fetch",
                                          ![i].attempts = @ + 1]
            /\ populate_progress' = [populate_progress EXCEPT
                 !.current = w.uploaded_count, !.message = "processing"]
       ELSE /\ workers' = [workers EXCEPT ![i].pc = "finish"]
            /\ UNCHANGED populate_progress
    /\ UNCHANGED <<galleryVars, resp>>

\* A loop head whose while condition lacks the bound on the attempts. C20
\* is sensitive to it.
WorkerCheck_NoAttemptBound(i) ==
    LET w == workers[i] IN
    /\ w.pc = "loop"
    /\ IF w.uploaded_count < w.target
       THEN IF populate_progress.status # "running"
            THEN /\ workers' = [workers EXCEPT ![i].pc = "finish"]
                 /\ UNCHANGED populate_progress
            ELSE /\ workers' = [workers EXCEPT ![i].pc = "fetch",
                                              ![i].attempts = @ + 1]
                 /\ populate_progress' = [populate_progress EXCEPT
                      !.current = w.uploaded_count, !.message = "processing"]
       ELSE /\ workers' = [workers EXCEPT ![i].pc = "finish"]
            /\ UNCHANGED populate_progress
    /\ UNCHANGED <<galleryVars, resp>>

\* The loop head: the while condition, the check of the status flag, the
\* choice of the row and the progress written before the download.
WorkerCheck(i) ==
    LET w == workers[i] IN
    /\ w.pc = "loop"
    /\ IF w.uploaded_count < w.target /\ w.attempts < w.max_attempts
       THEN IF populate_progress.status # "running"
            THEN /\ workers' = [workers EXCEPT ![i].pc = "finish"]
                 /\ UNCHANGED populate_progress
            ELSE /\ workers' = [workers EXCEPT ![i].pc = "fetch",
                                               ![i].attempts = @ + 1]
                 /\ populate_progress' = [populate_progress EXCEPT
                      !.current = w.uploaded_count, !.message = "processing"]
       ELSE /\ workers' = [workers EXCEPT ![i].pc = "finish"]
            /\ UNCHANGED populate_progress
    /\ UNCHANGED <<galleryVars, resp>>

\* requests.get is issued: the download is in flight.
WorkerFetch(i) ==
    /\ workers[i].pc = "fetch"
    /\ workers' = [workers EXCEPT ![i].pc = "download"]
    /\ UNCHANGED <<galleryVars, resp, populate_progress>>

\* The download returns (or raises), and the image is processed.
DownloadOutcomes == {"ok", "http_error", "network_error", "bad_image"}

WorkerDownload(i) ==
    /\ workers[i].pc = "download"
    /\ \E outcome \in DownloadOutcomes :
         IF outcome = "ok"
         THEN /\ workers' = [workers EXCEPT ![i].pc = "save"]
              /\ UNCHANGED populate_progress
         ELSE /\ workers' = [workers EXCEPT ![i].pc = "loop"]
              /\ populate_progress' = [populate_progress EXCEPT
                                         !.message = outcome]
    /\ UNCHANGED <<galleryVars, resp>>

\* get_db_connection and, with a connection, uploaded_count += 1.
WorkerSave(i) ==
    /\ workers[i].pc = "save"
    /\ \E c \in Connections(USE_SQLITE) :
         /\ USE_SQLITE' = c.flag
         /\ connLog' = <<Logged(c, "none")>>
         /\ IF c.conn = "none"
            THEN /\ workers' = [workers EXCEPT ![i].pc = "loop"]
                 /\ populate_progress' = [populate_progress EXCEPT
                                            !.message = "db_failed"]
            ELSE /\ workers' = [workers EXCEPT
                      ![i].pc = "insert", ![i].conn = c.conn,
                      ![i].uploaded_count = @ + 1]
                 /\ populate_progress' = [populate_progress EXCEPT
                                            !.message = "saving"]
    /\ UNCHANGED <<DEFAULT_PAGINATION, images, nextId, firstId, clock,
                   uploadsInARow, resp, cli, hostVars>>

\* The INSERT in the placeholder style USE_SQLITE selects, commit, and the
\* progress written after it; an exception only sets the message.
\* maintain_image_limit is not called here.
WorkerInsert(i) ==
    LET w == workers[i]
        style == IF USE_SQLITE THEN "qmark" ELSE "format"
    IN  /\ w.pc = "insert"
        /\ \E e \in StatementResults(w.conn, style) :
             IF e = "ok"
             THEN /\ \E ts \in NextStamps(images[w.conn]) :
                       /\ images' = InsertRow(images, w.conn, ts)
                       /\ clock' = ts
                  /\ nextId' = [nextId EXCEPT ![w.conn] = @ + 1]
                  /\ uploadsInARow' = [uploadsInARow EXCEPT ![w.conn] = 0]
                  /\ populate_progress' = [populate_progress EXCEPT
                       !.uploaded = w.uploaded_count,
                       !.current = w.uploaded_count,
                       !.message = "uploaded"]
             ELSE /\ populate_progress' = [populate_progress EXCEPT
                                             !.message = "process_failed"]
                  /\ UNCHANGED <<images, clock, nextId, uploadsInARow>>
        /\ workers' = [workers EXCEPT ![i].pc = "loop", ![i].conn = "none"]
        /\ connLog' = << >>
        /\ UNCHANGED <<USE_SQLITE, DEFAULT_PAGINATION, firstId, resp, cli,
                       hostVars>>

\* After the loop: status 'completed' and the final message.
WorkerFinish(i) ==
    LET w == workers[i] IN
    /\ w.pc = "finish"
    /\ workers' = [workers EXCEPT ![i].pc = "done"]
    /\ populate_progress' = [populate_progress EXCEPT
         !.status = "completed",
         !.message = IF w.uploaded_count >= w.target
                     THEN "success" ELSE "partial"]
    /\ UNCHANGED <<galleryVars, resp>>

\* ----------------------------------------------------- prepare_host.py
\* The host as run_setup finds it: whether the interpreter is 3.8 or later,
\* whether the system packages are there, what .venv holds ("absent", a
\* directory without an interpreter, one with an interpreter but no pip, or
\* a complete environment), whether .env and .env.example exist, and
\* whether one of the database scripts is in the project directory.
VenvStates == {"absent", "nopython", "nopip", "complete"}

Hosts ==
    [python_ok : BOOLEAN, deps_ok : BOOLEAN, venv : VenvStates,
     env_file : {"absent", "user"}, env_example : BOOLEAN,
     db_script : BOOLEAN]

\* A run of run_setup on a host: the step to run next (1 .. 8, 9 for the
\* summary), the steps run so far, failed_steps, and the value returned.
\* "escaped" is a run that an exception took out of run_setup; main exits
\* with 1 on it.
SetupRun(pc, host) ==
    [pc |-> pc, step |-> 1, ran |-> << >>, failed_steps |-> << >>,
     result |-> FALSE, host |-> host]

NoSetup ==
    SetupRun("idle", [python_ok |-> TRUE, deps_ok |-> TRUE, venv |-> "absent",
                      env_file |-> "absent", env_example |-> FALSE,
                      db_script |-> FALSE])

\* The number of steps in the list of run_setup.
StepCount == 8

setupFrame == <<USE_SQLITE, DEFAULT_PAGINATION, images, nextId, firstId,
                clock, resp, connLog, uploadsInARow, populate_progress,
                workers, cli, DATABASE_TYPE, schema, script, uploader>>

\* HostPreparation() and the start of run_setup.
SetupStart ==
    /\ setup.pc = "idle"
    /\ \E host \in Hosts : setup' = SetupRun("steps", host)
    /\ UNCHANGED setupFrame

\* One turn of the loop over the steps: the step function returned ret and
\* left the host as `host`.
StepReturned(k, ret, host) ==
    [setup EXCEPT !.step = k + 1,
                  !.ran = Append(@, k),
                  !.failed_steps = IF ret THEN @ ELSE Append(@, k),
                  !.host = host]

AtStep(k) == setup.pc = "steps" /\ setup.step = k

check_python_version ==
    /\ AtStep(1)
    /\ setup' = StepReturned(1, setup.host.python_ok, setup.host)
    /\ UNCHANGED setupFrame

check_system_dependencies ==
    /\ AtStep(2)
    /\ setup' = StepReturned(2, setup.host.deps_ok, setup.host)
    /\ UNCHANGED setupFrame

\* An existing .venv is taken as it is; otherwise python -m venv either
\* builds it or fails, leaving nothing or a partial directory.
create_virtual_environment ==
    /\ AtStep(3)
    /\ IF setup.host.venv # "absent"
       THEN setup' = StepReturned(3, TRUE, setup.host)
       ELSE \/ setup' = StepReturned(3, TRUE,
                          [setup.host EXCEPT !.venv = "complete"])
            \/ \E left \in {"absent", "nopython", "nopip"} :
                 setup' = StepReturned(3, FALSE,
                            [setup.host EXCEPT !.venv = left])
    /\ UNCHANGED setupFrame

\* Without pip in .venv the step fails; with it the two pip runs succeed
\* or one raises CalledProcessError.
install_python_requirements ==
    /\ AtStep(4)
    /\ IF setup.host.venv # "complete"
       THEN setup' = StepReturned(4, FALSE, setup.host)
       ELSE \E ok \in BOOLEAN : setup' = StepReturned(4, ok, setup.host)
    /\ UNCHANGED setupFrame

\* An existing .env is kept; otherwise it is copied from .env.example or
\* written with the basic content.
setup_environment_file ==
    /\ AtStep(5)
    /\ setup' = StepReturned(5, TRUE,
                  IF setup.host.env_file # "absent" THEN setup.host
                  ELSE [setup.host EXCEPT !.env_file =
                          IF setup.host.env_example THEN "example"
                          ELSE "basic"])
    /\ UNCHANGED setupFrame

\* Without a database script the step returns True. With one it runs
\* .venv/bin/python on it: a script that fails (CalledProcessError) still
\* gives True, and an interpreter that is not there makes subprocess.run
\* raise FileNotFoundError, which nothing in run_setup catches.
initialize_database ==
    /\ AtStep(6)
    /\ IF ~setup.host.db_script
       THEN setup' = StepReturned(6, TRUE, setup.host)
       ELSE IF setup.host.venv \in {"absent", "nopython"}
       THEN setup' = [setup EXCEPT !.pc = "escaped", !.ran = Append(@, 6)]
       ELSE \E scriptOk \in BOOLEAN :
              setup' = StepReturned(6, TRUE, setup.host)
    /\ UNCHANGED setupFrame

create_startup_scripts ==
    /\ AtStep(7)
    /\ setup' = StepReturned(7, TRUE, setup.host)
    /\ UNCHANGED setupFrame

create_systemd_service ==
    /\ AtStep(8)
    /\ setup' = StepReturned(8, TRUE, setup.host)
    /\ UNCHANGED setupFrame

\* The summary and return len(failed_steps) == 0.
run_setup_return ==
    /\ AtStep(StepCount + 1)
    /\ setup' = [setup EXCEPT !.pc = "done",
                              !.result = (Len(setup.failed_steps) = 0)]
    /\ UNCHANGED setupFrame

run_setup ==
    \/ check_python_version
    \/ check_system_dependencies
    \/ create_virtual_environment
    \/ install_python_requirements
    \/ setup_environment_file
    \/ initialize_database
    \/ create_startup_scripts
    \/ create_systemd_service
    \/ run_setup_return

\* ------------------------------------------------- the images schema
\* The values DATABASE_TYPE may have in the environment: the two names the
\* programs know, one of them also in another case, and a name none knows.
EnvTypes == {"postgresql", "sqlite", "SQLite", "mysql"}

\* os.environ.get('DATABASE_TYPE', 'sqlite').lower()
LowerType(t) == IF t = "SQLite" THEN "sqlite" ELSE t

\* What a database holds of the schema: the images table may be absent,
\* present without the description column, or complete; the index on
\* upload_date exists or not.
Absent == [table |-> "absent", index |-> FALSE]

Complete == [table |-> "complete", index |-> TRUE]

Schemas == {Absent} \cup [table : {"nodesc", "complete"}, index : BOOLEAN]

\* CREATE TABLE IF NOT EXISTS images (..., description TEXT, ...)
CreateTable(s) == IF s.table = "absent" THEN [s EXCEPT !.table = "complete"]
                  ELSE s

\* CREATE INDEX IF NOT EXISTS idx_images_upload_date
CreateIndex(s) == [s EXCEPT !.index = TRUE]

\* The backend the application starts with: SQLite for 'sqlite', PostgreSQL
\* for every other value.
AppBackend(t) == IF LowerType(t) = "sqlite" THEN "sqlite" ELSE "pg"

\* The statements of the application's init_db on a connection to `conn`.
\* ALTER TABLE ... ADD COLUMN description fails when the column exists and
\* the bare except swallows the error. SQLite goes on; PostgreSQL has
\* aborted the transaction, so CREATE INDEX raises, the outer except rolls
\* back, and the database is left as it was found.
AppInitSchema(s, conn) ==
    LET created == CreateTable(s) IN
    IF created.table = "nodesc"
    THEN CreateIndex([created EXCEPT !.table = "complete"])
    ELSE IF conn = "sqlite" THEN CreateIndex(created)
    ELSE s

\* init_db() of the application, called once before app.run.
AppInitDb ==
    /\ \E c \in Connections(USE_SQLITE) :
         /\ USE_SQLITE' = c.flag
         /\ IF c.conn = "none"
            THEN /\ connLog' = <<Logged(c, "none")>>
                 /\ UNCHANGED schema
            ELSE \E e \in StatementResults(c.conn, "none") :
                   /\ connLog' = <<Logged(c, e)>>
                   /\ schema' = IF e = "ok"
                                THEN [schema EXCEPT ![c.conn] =
                                        AppInitSchema(@, c.conn)]
                                ELSE schema
    /\ resp' = Response("init_db", 0, "none", "none")
    /\ UNCHANGED <<DEFAULT_PAGINATION, images, nextId, firstId, clock,
                   uploadsInARow, populate_progress, workers, cli,
                   DATABASE_TYPE, script, toolVars>>

\* A run of init_db.py or quick_init_db.py: the type it read, the backend
\* it chose ("none" when it refused the type) and its exit code.
ScriptRun(name, db_type, backend, exit_code) ==
    [name |-> name, db_type |-> db_type, backend |-> backend,
     exit_code |-> exit_code]

NoScript == ScriptRun("none", "none", "none", 0)

\* init_postgresql_tables and init_sqlite_tables of init_db.py: CREATE TABLE
\* IF NOT EXISTS, the description column added when it is missing (looked
\* up in information_schema, or tried and the error caught), CREATE INDEX
\* IF NOT EXISTS.
InitDbTables(s) == CreateIndex([CreateTable(s) EXCEPT !.table = "complete"])

\* The backend init_db.py works on.
InitDbBackend(db_type) ==
    IF db_type = "postgresql" THEN "pg"
    ELSE IF db_type = "sqlite" THEN "sqlite"
    ELSE "none"

\* main() of init_db.py: ok says whether the database could be reached and
\* ran the statements.
InitDbMain ==
    /\ LET db_type == LowerType(DATABASE_TYPE)
           b == InitDbBackend(db_type)
       IN  IF b = "none"
           THEN /\ script' = ScriptRun("init_db.py", db_type, b, 1)
                /\ UNCHANGED schema
           ELSE \E ok \in BOOLEAN :
                  /\ script' = ScriptRun("init_db.py", db_type, b,
                                         IF ok THEN 0 ELSE 1)
                  /\ schema' = IF ok
                               THEN [schema EXCEPT ![b] = InitDbTables(@)]
                               ELSE schema
    /\ UNCHANGED <<USE_SQLITE, DEFAULT_PAGINATION, images, nextId, firstId,
                   clock, resp, connLog, uploadsInARow, populate_progress,
                   workers, cli, DATABASE_TYPE, toolVars>>

\* The backend quick_init_db.py works on: PostgreSQL for 'postgresql', the
\* SQLite file for every other value.
QuickInitBackend(db_type) == IF db_type = "postgresql" THEN "pg" ELSE "sqlite"

\* quick_init() of quick_init_db.py: CREATE TABLE IF NOT EXISTS and CREATE
\* INDEX IF NOT EXISTS; the script exits with 1 when quick_init returns
\* False.
QuickInit ==
    /\ LET db_type == LowerType(DATABASE_TYPE)
           b == QuickInitBackend(db_type)
       IN  \E ok \in BOOLEAN :
             /\ script' = ScriptRun("quick_init_db.py", db_type, b,
                                    IF ok THEN 0 ELSE 1)
             /\ schema' = IF ok
                          THEN [schema EXCEPT ![b] = CreateIndex(CreateTable(@))]
                          ELSE schema
    /\ UNCHANGED <<USE_SQLITE, DEFAULT_PAGINATION, images, nextId, firstId,
                   clock, resp, connLog, uploadsInARow, populate_progress,
                   workers, cli, DATABASE_TYPE, toolVars>>

\* ------------------------------------------------------ db_manager.py
\* The choices of the `action` argument.
CliActions == {"init", "create", "status", "reset"}

\* What input() gives at the confirmation prompt; "eof" is a closed stdin,
\* on which input() raises EOFError.
ConfirmAnswers == {"yes", "YES", "no", "eof"}

\* confirm.lower()
LowerAnswer(a) == IF a = "YES" THEN "yes" ELSE a

\* A run of the utility: its arguments, the DATABASE_TYPE it read, whether
\* it prompted and what was answered, whether the images table was dropped
\* and re-created, the exit code, and whether an exception ended the run.
CliRun(action, force, db_type) ==
    [action |-> action, force |-> force, db_type |-> db_type,
     prompted |-> FALSE, answer |-> "none", dropped |-> FALSE,
     created |-> FALSE, exit_code |-> 0, escaped |-> FALSE]

\* The backend reset_database and show_status work on: PostgreSQL when the
\* type is 'postgresql', the SQLite file for every other type.
DbBackend(db_type) == IF db_type = "postgresql" THEN "pg" ELSE "sqlite"

\* create_database: ok says whether the PostgreSQL server did its part.
create_database(db_type, ok) ==
    IF db_type = "postgresql" THEN ok ELSE db_type = "sqlite"

\* init_tables: ok says whether CREATE TABLE IF NOT EXISTS went through.
init_tables(db_type, ok) ==
    IF db_type \in {"postgresql", "sqlite"} THEN ok ELSE FALSE

\* A reset that takes every answer for a confirmation. C26 is sensitive
\* to it.
reset_database_AnyAnswer(run, answer, dropOk, initOk) ==
    LET asked == [run EXCEPT !.prompted = TRUE, !.answer = answer] IN
    IF answer = "eof"
    THEN [asked EXCEPT !.escaped = TRUE, !.exit_code = 1]
    ELSE IF ~dropOk
    THEN [asked EXCEPT !.exit_code = 1]
    ELSE [asked EXCEPT !.dropped = TRUE, !.created = initOk,
                       !.exit_code = IF initOk THEN 0 ELSE 1]

\* reset_database: the prompt is made in every run; only the answer 'yes'
\* (in any case) lets the DROP TABLE and the re-creation run. dropOk and
\* initOk say whether the two statements went through.
reset_database(run, answer, dropOk, initOk) ==
    LET asked == [run EXCEPT !.prompted = TRUE, !.answer = answer] IN
    IF answer = "eof"
    THEN [asked EXCEPT !.escaped = TRUE, !.exit_code = 1]
    ELSE IF LowerAnswer(answer) # "yes"
    THEN [asked EXCEPT !.exit_code = 1]
    ELSE IF ~dropOk
    THEN [asked EXCEPT !.exit_code = 1]
    ELSE [asked EXCEPT !.dropped = TRUE, !.created = initOk,
                       !.exit_code = IF initOk THEN 0 ELSE 1]

\* main(): parse the arguments (--force is stored in args.force and read
\* nowhere), build the manager from the environment, and run the action.
DbManagerMain ==
    /\ \E action \in CliActions, force \in BOOLEAN :
         LET db_type == LowerType(DATABASE_TYPE)
             run == CliRun(action, force, db_type)
             b == DbBackend(db_type)
         IN  \/ /\ action = "init"
                /\ \E ok1, ok2 \in BOOLEAN :
                     /\ cli' = [run EXCEPT !.exit_code =
                                  IF create_database(db_type, ok1)
                                     /\ init_tables(db_type, ok2)
                                  THEN 0 ELSE 1]
                     /\ schema' = IF cli'.exit_code = 0
                                  THEN [schema EXCEPT ![b] =
                                          CreateIndex(CreateTable(@))]
                                  ELSE schema
                /\ UNCHANGED <<images, nextId, firstId, uploadsInARow>>
             \/ /\ action = "create"
                /\ \E ok \in BOOLEAN :
                     cli' = [run EXCEPT !.exit_code =
                               IF create_database(db_type, ok) THEN 0 ELSE 1]
                /\ UNCHANGED <<images, nextId, firstId, uploadsInARow, schema>>
             \/ /\ action = "status"
                /\ cli' = run
                /\ UNCHANGED <<images, nextId, firstId, uploadsInARow, schema>>
             \/ /\ action = "reset"
                /\ \E answer \in ConfirmAnswers, dropOk, initOk \in BOOLEAN :
                     /\ cli' = reset_database(run, answer, dropOk, initOk)
                     /\ IF cli'.dropped
                        THEN /\ images' = [images EXCEPT ![b] = {}]
                             /\ nextId' = [nextId EXCEPT ![b] = 1]
                             /\ firstId' = [firstId EXCEPT ![b] = 1]
                             /\ uploadsInARow' =
                                  [uploadsInARow EXCEPT ![b] = 0]
                             /\ schema' = [schema EXCEPT ![b] =
                                             IF cli'.created
                                             THEN CreateIndex(CreateTable(Absent))
                                             ELSE Absent]
                        ELSE UNCHANGED <<images, nextId, firstId,
                                         uploadsInARow, schema>>
    /\ UNCHANGED <<USE_SQLITE, DEFAULT_PAGINATION, clock, resp, connLog,
                   populate_progress, workers, DATABASE_TYPE, script,
                   toolVars>>

\* ------------------------------------------------ populate_gallery.py
\* A run of main: where it is, its arguments, its counters, the size of
\* the batch submitted last, the futures of the batch not yet collected,
\* and how the run ended.
UploadRun(pc, target, max_workers) ==
    [pc |-> pc, target_uploads |-> target, max_workers |-> max_workers,
     successful_uploads |-> 0, attempt |-> 1, batch_size |-> 0,
     pending |-> 0, outcome |-> "none"]

NoUpload == UploadRun("idle", 0, 0)

uploaderFrame == <<USE_SQLITE, DEFAULT_PAGINATION, images, nextId, firstId,
                   clock, resp, connLog, uploadsInARow, populate_progress,
                   workers, cli, DATABASE_TYPE, schema, script, setup>>

\* A batch of the whole pool width, whatever is left to upload. C27 is
\* sensitive to it.
BatchSize_PoolWidth(max_workers, target_uploads, successful_uploads) ==
    max_workers * 2

\* batch_size = min(max_workers * 2, target_uploads - successful_uploads)
BatchSize(max_workers, target_uploads, successful_uploads) ==
    Min(max_workers * 2, target_uploads - successful_uploads)

\* main up to the loop: the arguments are parsed, the gallery is probed
\* (main returns when it does not answer), and the pool is built, which
\* raises ValueError for a width that is not positive.
UploaderStart ==
    /\ uploader.pc = "idle"
    /\ \E target \in (0 - MaxNegativeTarget)..MaxUploadTarget,
          max_workers \in 0..MaxPool, flaskOk \in BOOLEAN :
         LET run == UploadRun("while", target, max_workers) IN
         uploader' = IF ~flaskOk
                     THEN [run EXCEPT !.pc = "ended", !.outcome = "unreachable"]
                     ELSE IF max_workers <= 0
                     THEN [run EXCEPT !.pc = "ended", !.outcome = "error"]
                     ELSE run
    /\ UNCHANGED uploaderFrame

\* The test of the while loop and the submission of a batch.
UploaderWhile ==
    /\ uploader.pc = "while"
    /\ uploader.attempt <= MaxAttempt
    /\ uploader' =
         IF uploader.successful_uploads < uploader.target_uploads
         THEN LET batch_size == BatchSize(uploader.max_workers,
                                          uploader.target_uploads,
                                          uploader.successful_uploads)
              IN  [uploader EXCEPT !.pc = "collect",
                                   !.batch_size = batch_size,
                                   !.pending = batch_size]
         ELSE [uploader EXCEPT !.pc = "ended", !.outcome = "complete"]
    /\ UNCHANGED uploaderFrame

\* One turn of the as_completed loop: the result of a future is None when
\* its download or its upload failed; a result that completes the target
\* cancels what has not started and breaks. After the loop attempt grows by
\* the batch size.
UploaderCollect ==
    /\ uploader.pc = "collect"
    /\ IF uploader.pending = 0
       THEN uploader' = [uploader EXCEPT !.pc = "while",
                                         !.attempt = @ + uploader.batch_size]
       ELSE \E result \in BOOLEAN :
              LET count == uploader.successful_uploads
                             + (IF result THEN 1 ELSE 0)
              IN  uploader' =
                    IF result /\ count >= uploader.target_uploads
                    THEN [uploader EXCEPT
                            !.successful_uploads = count,
                            !.pending = 0,
                            !.pc = "while",
                            !.attempt = @ + uploader.batch_size]
                    ELSE [uploader EXCEPT !.successful_uploads = count,
                                          !.pending = @ - 1]
    /\ UNCHANGED uploaderFrame

\* KeyboardInterrupt, or another exception, raised inside the try block.
UploaderAbort ==
    /\ uploader.pc \in {"while", "collect"}
    /\ \E how \in {"interrupted", "error"} :
         uploader' = [uploader EXCEPT !.pc = "ended", !.outcome = how]
    /\ UNCHANGED uploaderFrame

\* ------------------------------------------------------ specification
\* The table a backend holds when the application starts is what earlier
\* runs left: n rows with the ids 1 .. n, stamped 1 .. n in the order of
\* their insertion, or (tied) with the first two rows sharing a stamp. Rows
\* reach the PostgreSQL table by uploads made one after another.
SeedRows(n, tied) ==
    {[id |-> i, ts |-> IF tied /\ i = 1 THEN 2 ELSE i] : i \in 1..n}

InitEnv(n, tied, types, schemas) ==
    /\ DATABASE_TYPE \in types
    /\ USE_SQLITE = (LowerType(DATABASE_TYPE) = "sqlite")
    /\ schema \in [Backends -> schemas]
    /\ script = NoScript
    /\ uploader = NoUpload
    /\ setup = NoSetup
    /\ DEFAULT_PAGINATION \in 1..MaxPerPage
    /\ images = [b \in Backends |-> SeedRows(n, tied)]
    /\ nextId = [b \in Backends |-> n + 1]
    /\ firstId = [b \in Backends |-> n + 1]
    /\ clock = n
    /\ resp = Response("none", 0, "none", "none")
    /\ connLog = << >>
    /\ uploadsInARow = [b \in Backends |-> IF b = "pg" THEN n ELSE 0]
    /\ populate_progress = Progress(0, 0, "idle", "", 0)
    /\ workers = << >>
    /\ cli = CliRun("none", FALSE, "none")

\* The application configured for one of its two backends, on databases
\* whose schema is complete.
InitWith(n, tied) == InitEnv(n, tied, {"postgresql", "sqlite"}, {Complete})

\* A step of the i-th populate thread.
WorkerOf(i) ==
    /\ i \in 1..Len(workers)
    /\ \/ WorkerLoad(i)
       \/ WorkerCheck(i)
       \/ WorkerFetch(i)
       \/ WorkerDownload(i)
       \/ WorkerSave(i)
       \/ WorkerInsert(i)
       \/ WorkerFinish(i)

WorkerStep == \E i \in 1..MaxThreads : WorkerOf(i)

\* The gallery's request handlers, on tables of 0 .. MaxSeed rows.
InitGallery == \E n \in 0..MaxSeed : InitWith(n, FALSE)

NextGallery ==
    \/ Index
    \/ Upload
    \/ ApiUpload
    \/ DeleteImage
    \/ DeleteAll
    \/ ApiImages

SpecGallery == InitGallery /\ [][NextGallery]_vars

\* The populate job: its three requests and its threads, on empty tables.
\* The page size plays no part in it and is the greatest one.
InitPopulate == InitWith(0, FALSE) /\ DEFAULT_PAGINATION = MaxPerPage

NextPopulate ==
    \/ StartPopulate
    \/ StopPopulate
    \/ WorkerStep

SpecPopulate == InitPopulate /\ [][NextPopulate]_vars

\* Uploads of valid images into tables one row short of the limit.
InitLimit == \E tied \in BOOLEAN : InitWith(ImageLimit - 1, tied)

ValidFiles == {f \in Files : f.present /\ validate_image(f)[1]}

NextLimit ==
    \/ UploadFrom(ValidFiles)
    \/ ApiUploadFrom(ValidFiles)
    \/ ApiImages

SpecLimit == InitLimit /\ [][NextLimit]_vars

\* maintain_image_limit called on its own: it returns nothing, and what it
\* did shows in the table and in the log of its connection.
MaintainImageLimitCall ==
    /\ \E m \in MaintainOutcomes(images, USE_SQLITE) :
         /\ images' = m.images
         /\ USE_SQLITE' = m.flag
         /\ connLog' = <<m.log>>
    /\ resp' = Response("maintain_image_limit", 0, "none", "none")
    /\ UNCHANGED <<DEFAULT_PAGINATION, nextId, firstId, clock, uploadsInARow,
                   populateVars>>

\* Calls of maintain_image_limit on tables around the limit, as the populate
\* job (which never trims) or an earlier configuration may have left them.
InitMaintain ==
    \E n \in (ImageLimit - 1)..(ImageLimit + MaxOver), tied \in BOOLEAN :
      InitWith(n, tied)

NextMaintain == MaintainImageLimitCall

SpecMaintain == InitMaintain /\ [][NextMaintain]_vars

\* One populate job on tables that hold ImageLimit rows.
InitPopulateLimit == InitWith(ImageLimit, FALSE)

NextPopulateLimit ==
    \/ (workers = << >> /\ StartPopulate)
    \/ StopPopulate
    \/ WorkerStep

SpecPopulateLimit == InitPopulateLimit /\ [][NextPopulateLimit]_vars

\* The populate job with threads that are scheduled: a thread that can take
\* a step eventually takes one (the download has a timeout, the database
\* calls return).
SpecPopulateFair ==
    SpecPopulate /\ \A i \in 1..MaxThreads : WF_vars(WorkerOf(i))

\* Runs of db_manager.py on the tables the gallery left.
NextDbManager == DbManagerMain

InitDbManager == \E n \in 0..MaxSeed : InitEnv(n, FALSE, EnvTypes, {Complete})

SpecDbManager == InitDbManager /\ [][NextDbManager]_vars

\* The application's init_db and the three scripts, under every value of
\* DATABASE_TYPE, on databases in every state of the schema. A database
\* without the table holds no rows.
InitInitDb ==
    /\ \E n \in 0..MaxSeed : InitEnv(n, FALSE, EnvTypes, Schemas)
    /\ \A b \in Backends : schema[b].table = "absent" => images[b] = {}

NextInitDb ==
    \/ AppInitDb
    \/ InitDbMain
    \/ QuickInit
    \/ DbManagerMain

SpecInitDb == InitInitDb /\ [][NextInitDb]_vars

\* One run of populate_gallery.py.
NextUploader ==
    \/ UploaderStart
    \/ UploaderWhile
    \/ UploaderCollect
    \/ UploaderAbort

SpecUploader == InitWith(0, FALSE) /\ [][NextUploader]_vars

\* One run of prepare_host.py.
NextSetup ==
    \/ SetupStart
    \/ run_setup

SpecSetup == InitWith(0, FALSE) /\ [][NextSetup]_vars

\* ------------------------------------------------------------- claims
\* C1: after any insert has completed, by an upload handler or by the
\* populate worker, the images table holds at most 100 rows.
C1_TableWithinLimit ==
    \A b \in Backends : Cardinality(images[b]) <= ImageLimit

\* C2: after more than 100 successful uploads made one after another into a
\* table, the table holds exactly the 100 rows uploaded last, also when rows
\* share a timestamp, and a listing returns them ordered by upload time
\* descending.
C2_LastHundredRemain ==
    \A b \in Backends :
      uploadsInARow[b] > ImageLimit =>
        /\ {r.id : r \in images[b]} = (nextId[b] - ImageLimit)..(nextId[b] - 1)
        /\ Cardinality(images[b]) = ImageLimit
        /\ (/\ resp.handler = "api_images"
            /\ resp.code = 200
            /\ connLog[1].call.conn = b)
           => /\ {resp.listed[k] : k \in 1..Len(resp.listed)}
                   = {r.id : r \in images[b]}
              /\ Len(resp.listed) = Cardinality(images[b])
              /\ \A j, k \in 1..Len(resp.listed) :
                   j < k =>
                     \A r, q \in images[b] :
                       r.id = resp.listed[j] /\ q.id = resp.listed[k]
                         => r.ts >= q.ts

\* C3: at most one populate worker thread is running at any time.
C3_AtMostOneWorker == Cardinality(RunningWorkers) <= 1

\* C4 as stated: while the status flag is not 'running', no populate worker
\* starts a download.
C4_NoDownloadOnceStopped ==
    [][populate_progress.status # "running" =>
         \A i \in 1..Len(workers) :
           ~(workers[i].pc = "fetch" /\ workers'[i].pc = "download")]_vars

\* C4 amended: a worker that finds the status flag not 'running' at its loop
\* check starts no further download and leaves the loop for good; a worker
\* enters a download only from a check that saw 'running'; a download in
\* flight is not cancelled: it ends by returning, whatever the flag is.
C4_CooperativeStop ==
    [][\A i \in 1..Len(workers) :
         LET w == workers[i]
             v == workers'[i]
         IN  /\ (w.pc = "loop" /\ populate_progress.status # "running"
                   /\ v # w)
                => v.pc = "finish" /\ v.attempts = w.attempts
             /\ (v.pc = "fetch" /\ w.pc # "fetch")
                => w.pc = "loop" /\ populate_progress.status = "running"
             /\ (v.pc = "download" /\ w.pc # "download") => w.pc = "fetch"
             /\ (w.pc = "download" /\ v # w) => v.pc \in {"save", "loop"}
             /\ w.pc \in {"finish", "done"} => v.pc \in {"finish", "done"}
      ]_vars

\* A worker stopped by the flag: it left the loop while it still had images
\* to upload and attempts left, and the flag is 'stopped'.
C4_StoppedByFlag ==
    \E i \in 1..Len(workers) :
      /\ workers[i].pc = "finish"
      /\ workers[i].uploaded_count < workers[i].target
      /\ workers[i].attempts < workers[i].max_attempts
      /\ populate_progress.status = "stopped"

\* C5: the fallback is performed once. USE_SQLITE never returns to false;
\* a call made with the flag set connects to SQLite only; a call whose
\* PostgreSQL connect fails sets the flag and goes on to SQLite in the same
\* call; None is returned only when the SQLite connect was made and failed.
C5_FallbackOnce ==
    [][/\ USE_SQLITE => USE_SQLITE'
       /\ \A k \in 1..Len(connLog') :
            LET c == connLog'[k].call
                before == IF k = 1 THEN USE_SQLITE
                          ELSE connLog'[k - 1].call.flag
            IN  /\ before => ~c.triedPg /\ c.triedSqlite /\ c.flag
                /\ ~before => c.triedPg
                /\ (c.triedPg /\ c.conn # "pg")
                   => c.flag /\ c.triedSqlite /\ c.conn \in {"sqlite", "none"}
                /\ c.conn = "pg" => c.triedPg /\ ~c.triedSqlite /\ ~c.flag
                /\ c.conn = "none" => c.triedSqlite
                /\ k = Len(connLog') => USE_SQLITE' = c.flag
      ]_vars

\* A call that fell back: PostgreSQL was tried, a SQLite connection came
\* back, and the flag is set.
C5_FellBack ==
    /\ USE_SQLITE
    /\ \E k \in 1..Len(connLog) :
         /\ connLog[k].call.triedPg
         /\ ~connLog[k].call.flagBefore
         /\ connLog[k].call.conn = "sqlite"

\* C6: a gallery page rendered from a healthy database reports total_pages
\* as the least number of pages of page_size images that hold all images;
\* pages before the last list page_size images, the last page lists the
\* remainder.
C6_Pagination ==
    (/\ resp.handler = "index"
     /\ connLog # << >>
     /\ connLog[1].stmt = "ok")
    => LET total == Cardinality(images[connLog[1].call.conn])
           size  == DEFAULT_PAGINATION
           pages == resp.total_pages
       IN  /\ resp.total_images = total
           /\ pages * size >= total
           /\ pages = 0 \/ (pages - 1) * size < total
           /\ (pages = 0) = (total = 0)
           /\ \A p \in 1..pages :
                resp.page = p =>
                  Len(resp.listed) = IF p < pages THEN size
                                     ELSE total - (pages - 1) * size

\* A last page holding a remainder smaller than the page size.
C6_PartialLastPage ==
    /\ resp.handler = "index"
    /\ connLog # << >>
    /\ connLog[1].stmt = "ok"
    /\ resp.total_pages >= 2
    /\ resp.page = resp.total_pages
    /\ Len(resp.listed) >= 1
    /\ Len(resp.listed) < DEFAULT_PAGINATION

\* C7: a delete request for an id that is not in the table, on a database
\* that is reachable and runs its statements, leaves the table unchanged,
\* reports no error and answers with the redirect to the gallery, on
\* whichever backend is active.
C7_DeleteAbsentIsNoOp ==
    [][(/\ resp'.handler = "delete_image"
        /\ connLog'[1].call.conn # "none"
        /\ connLog'[1].stmt \notin {"error", "lost"}
        /\ \A r \in images[connLog'[1].call.conn] : r.id # resp'.image_id)
       => /\ images' = images
          /\ resp'.flash # "error"
          /\ resp'.code = 302
          /\ resp'.body = "redirect_index"
          /\ ~resp'.escaped
      ]_vars

\* C8: an upload whose extension (the text after the last '.', lower-cased;
\* empty without a '.') is not allowed is rejected before any connection is
\* opened and inserts nothing: /upload flashes an error and redirects back to
\* the form, /api/upload answers 400 with an error body.
C8_DisallowedExtensionRejected ==
    [][LET name == resp'.file.filename
           allowed ==
             \E k \in 1..Len(name) :
               /\ name[k] = "."
               /\ \A j \in (k + 1)..Len(name) : name[j] # "."
               /\ [j \in 1..(Len(name) - k) |-> Lower(name[k + j])]
                    \in ALLOWED_EXTENSIONS
       IN  (/\ resp'.handler \in {"upload", "api_upload"}
            /\ resp'.file.present
            /\ ~allowed)
           => /\ connLog' = << >>
              /\ images' = images
              /\ nextId' = nextId
              /\ USE_SQLITE' = USE_SQLITE
              /\ ~resp'.escaped
              /\ resp'.handler = "upload"
                 => /\ resp'.code = 302
                    /\ resp'.flash = "error"
                    /\ resp'.body = "redirect_upload"
              /\ resp'.handler = "api_upload"
                 => /\ resp'.code = 400
                    /\ resp'.body = "json_error"
      ]_vars

\* A decodable image under a disallowed name, rejected by /api/upload.
C8_RejectedByExtension ==
    /\ resp.handler = "api_upload"
    /\ resp.code = 400
    /\ resp.file.present
    /\ resp.file.decodes
    /\ resp.file.filename = <<"j", ".", "x">>
    /\ connLog = << >>

\* C9: every handler returns a response whatever fails: no exception leaves
\* the handler, and a connection failure, a validation failure or a query
\* failure is surfaced as a flashed error or as a JSON error body.
C9_FailuresSurfaced ==
    resp.handler \in {"index", "upload", "delete_image", "delete_all",
                      "api_upload", "api_images"}
    => /\ ~resp.escaped
       /\ (\/ connLog = << >>
           \/ connLog[1].call.conn = "none"
           \/ connLog[1].stmt # "ok")
          => resp.flash = "error" \/ resp.body = "json_error"

\* C10: /api/upload answers 201 with the new id exactly when a row was
\* inserted and committed, 400 exactly for a missing or invalid file, 500
\* exactly when a valid file met a connection or a query failure; with 400
\* and with 500 the tables are as they were.
C10_ApiUploadStatus ==
    [][resp'.handler = "api_upload" =>
         LET f == resp'.file
             valid == /\ f.present
                      /\ f.filename # << >>
                      /\ FileExtension(f.filename) \in ALLOWED_EXTENSIONS
                      /\ f.decodes
             inserted == \E b \in Backends :
                           /\ nextId'[b] = nextId[b] + 1
                           /\ resp'.image_id = nextId[b]
                           /\ connLog'[1].call.conn = b
                           /\ connLog'[1].stmt = "ok"
             dbFailed == /\ connLog' # << >>
                         /\ \/ connLog'[1].call.conn = "none"
                            \/ connLog'[1].stmt # "ok"
         IN  /\ resp'.code \in {201, 400, 500}
             /\ (resp'.code = 201) = inserted
             /\ (resp'.code = 201) = (nextId' # nextId)
             /\ (resp'.code = 400) = ~valid
             /\ (resp'.code = 500) = (valid /\ dbFailed)
             /\ resp'.code # 201 => images' = images /\ resp'.body = "json_error"
             /\ ~resp'.escaped
      ]_vars

\* An image stored through /api/upload: 201 with the id of the new row.
C10_Created ==
    /\ resp.handler = "api_upload"
    /\ resp.code = 201
    /\ resp.image_id >= 1
    /\ connLog # << >>
    /\ connLog[1].stmt = "ok"
    /\ nextId[connLog[1].call.conn] = resp.image_id + 1

\* C11: for a valid image and a database that is reachable and runs its
\* statements, /upload and /api/upload each insert exactly one new row (the
\* file's) into the table of the backend connected to, in SQLite mode as in
\* PostgreSQL mode.
C11_UploadInsertsOneRow ==
    [][(/\ resp'.handler \in {"upload", "api_upload"}
        /\ resp'.file.present
        /\ validate_image(resp'.file)[1]
        /\ connLog' # << >>
        /\ connLog'[1].call.conn # "none"
        /\ connLog'[1].stmt \notin {"error", "lost"})
       => LET b == connLog'[1].call.conn IN
          /\ nextId'[b] = nextId[b] + 1
          /\ \E ts \in {clock, clock + 1} :
               images'[b] = images[b] \cup {[id |-> nextId[b], ts |-> ts]}
          /\ \A o \in Backends \ {b} : images'[o] = images[o]
      ]_vars

\* C12: a delete request for an id present in the table, on a database that
\* is reachable and runs its statements, removes exactly that row and leaves
\* every other row unchanged, on either backend.
C12_DeleteRemovesExactlyThatRow ==
    [][(/\ resp'.handler = "delete_image"
        /\ connLog'[1].call.conn # "none"
        /\ connLog'[1].stmt \notin {"error", "lost"}
        /\ \E r \in images[connLog'[1].call.conn] : r.id = resp'.image_id)
       => LET b == connLog'[1].call.conn IN
          /\ images'[b] = {r \in images[b] : r.id # resp'.image_id}
          /\ \A o \in Backends \ {b} : images'[o] = images[o]
          /\ resp'.flash = "success"
      ]_vars

\* C13: /api/images on a connection whose query succeeds answers 200 with one
\* entry per stored row, ordered by upload date descending, on either
\* backend and for any number of rows; an error body is answered only when
\* the connection or the query fails.
C13_ApiImagesListsEveryRow ==
    (/\ resp.handler = "api_images"
     /\ connLog # << >>
     /\ connLog[1].call.conn # "none"
     /\ connLog[1].stmt = "ok")
    => LET rows == images[connLog[1].call.conn] IN
       /\ resp.code = 200
       /\ resp.body = "json_ok"
       /\ Len(resp.listed) = Cardinality(rows)
       /\ {resp.listed[k] : k \in 1..Len(resp.listed)} = {r.id : r \in rows}
       /\ \A j, k \in 1..Len(resp.listed) :
            j < k => \A r, q \in rows :
                       r.id = resp.listed[j] /\ q.id = resp.listed[k]
                         => r.ts >= q.ts

\* C14: db_manager.py reset --force performs the reset without asking for
\* confirmation.
C14_ForceSkipsConfirmation ==
    (cli.action = "reset" /\ cli.force) => ~cli.prompted

\* C15: whenever the populate worker is about to branch on USE_SQLITE to
\* choose the placeholder style of its INSERT, the flag says which backend
\* the connection it holds belongs to, under every interleaving with a
\* fallback made elsewhere.
C15_FlagMatchesConnection ==
    \A i \in 1..Len(workers) :
      workers[i].pc = "insert" =>
        (USE_SQLITE <=> workers[i].conn = "sqlite")

\* C16: after a stop request the status of the progress record stays
\* 'stopped', and the message the one the stop wrote, until the next
\* populate request: a worker that leaves its loop, because of the stop or
\* otherwise without failing, does not overwrite them.
C16_StoppedStaysStopped ==
    [][(/\ populate_progress.status = "stopped"
        /\ Len(workers') = Len(workers)
        /\ \A i \in 1..Len(workers) : workers'[i].pc # "crashed")
       => /\ populate_progress'.status = "stopped"
          /\ populate_progress.message = "stopped"
             => populate_progress'.message = "stopped"
      ]_vars

\* C17: a populate worker that fails before its loop, when the dataset file
\* is missing or unreadable, leaves the progress record with status 'error'
\* and a failure message, and no exception leaves its thread.
C17_LoadFailureReported ==
    [][\A i \in 1..Len(workers) :
         (workers[i].pc = "start" /\ workers'[i].pc \notin {"start", "loop"})
         => /\ workers'[i].pc = "done"
            /\ populate_progress'.status = "error"
            /\ populate_progress'.message = "failed"
      ]_vars

\* C18: the populate worker's uploaded count equals the number of rows it
\* has committed (here the one worker is the only writer): an image whose
\* INSERT or commit failed is not counted, neither towards the target nor
\* in the final message.
C18_CountEqualsCommitted ==
    \A i \in 1..Len(workers) :
      LET committed == (nextId["pg"] - firstId["pg"])
                       + (nextId["sqlite"] - firstId["sqlite"])
      IN  /\ workers[i].pc \in {"loop", "finish", "done"}
             => workers[i].uploaded_count = committed
          /\ (workers[i].pc = "done" /\ populate_progress.message = "success")
             => committed >= workers[i].target

\* C19: in every reachable state the progress record has uploaded <= total
\* and current <= total, also when a populate request arrives while a
\* worker started earlier is still running.
C19_ProgressWithinTotal ==
    /\ populate_progress.uploaded <= populate_progress.total
    /\ populate_progress.current <= populate_progress.total

\* C20: a populate worker makes at most min(dataset rows, 2 * target)
\* download attempts, one per download; at a loop check it leaves the loop
\* when the target is counted as uploaded, when the attempts are used up or
\* when the status is not 'running'; and every worker started terminates.
C20_WorkerTerminates ==
    /\ [][\A i \in 1..Len(workers) :
            LET w == workers[i]
                v == workers'[i]
            IN  /\ v.pc # "start" => v.attempts <= Min(v.rows, 2 * v.target)
                /\ v.attempts >= w.attempts
                /\ v.attempts > w.attempts
                   => /\ v.attempts = w.attempts + 1
                      /\ w.pc = "loop"
                      /\ v.pc = "fetch"
                /\ (v.pc = "fetch" /\ w.pc # "fetch")
                   => v.attempts = w.attempts + 1
                /\ (/\ w.pc = "loop"
                    /\ v # w
                    /\ \/ w.uploaded_count >= w.target
                       \/ w.attempts >= Min(w.rows, 2 * w.target)
                       \/ populate_progress.status # "running")
                   => v.pc = "finish"
         ]_vars
    /\ \A i \in 1..MaxThreads :
         [](Len(workers) >= i
              => <>(/\ Len(workers) >= i
                    /\ workers[i].pc \in {"done", "crashed"}))

\* A worker that gave up: every download failed, the attempts are used up,
\* nothing was uploaded, and the thread has ended.
C20_GaveUp ==
    \E i \in 1..Len(workers) :
      /\ workers[i].pc = "done"
      /\ workers[i].attempts = Min(workers[i].rows, 2 * workers[i].target)
      /\ workers[i].attempts >= 2
      /\ workers[i].uploaded_count = 0

\* C21: with no write between the requests, two gallery pages of different
\* numbers rendered one after the other from the same healthy database list
\* no image in common, so walking the pages lists every image exactly once,
\* also when several rows share an upload timestamp.
C21_PagesPartitionTheTable ==
    [][(/\ resp.handler = "index"
        /\ resp'.handler = "index"
        /\ connLog # << >>
        /\ connLog[1].stmt = "ok"
        /\ connLog'[1].stmt = "ok"
        /\ connLog'[1].call.conn = connLog[1].call.conn
        /\ images' = images
        /\ resp.page >= 1
        /\ resp'.page >= 1
        /\ resp'.page # resp.page)
       => \A j \in 1..Len(resp.listed), k \in 1..Len(resp'.listed) :
            resp.listed[j] # resp'.listed[k]
      ]_vars

\* C22: for every page number the route accepts, the gallery handler on a
\* reachable database whose statements run renders without a query error,
\* has_prev holds exactly when page > 1, has_next exactly when
\* page < total_pages, and prev_page and next_page, when not None, lie in
\* 1 .. total_pages.
C22_EveryPageRenders ==
    (/\ resp.handler = "index"
     /\ connLog # << >>
     /\ connLog[1].stmt \in {"ok", "offset"})
    => /\ resp.flash # "error"
       /\ resp.nav.has_prev = (resp.page > 1)
       /\ resp.nav.has_next = (resp.page < resp.total_pages)
       /\ \A n \in {resp.nav.prev_page, resp.nav.next_page} :
            n # None => n[1] \in 1..resp.total_pages

\* C23: maintain_image_limit deletes nothing from a table of 100 rows or
\* fewer, what it deletes from a larger table are its oldest rows and leaves
\* exactly 100,
\* and a second run on the same database right after one whose DELETE
\* succeeded changes nothing.
C23_MaintainIdempotent ==
    [][resp'.handler = "maintain_image_limit"
       => LET b == connLog'[1].call.conn IN
          /\ \A d \in Backends :
               /\ images'[d] \subseteq images[d]
               /\ Cardinality(images[d]) <= ImageLimit => images'[d] = images[d]
               /\ d # b => images'[d] = images[d]
               /\ \A r \in images'[d], q \in images[d] \ images'[d] :
                    q.ts <= r.ts
          /\ (b # "none" /\ connLog'[1].stmt = "ok")
             => Cardinality(images'[b]) = Min(Cardinality(images[b]), ImageLimit)
          /\ (/\ resp.handler = "maintain_image_limit"
              /\ connLog[1].stmt = "ok"
              /\ connLog[1].call.conn = b)
             => images' = images
      ]_vars

\* A run of maintain_image_limit that left a table trimmed to the limit:
\* the table held more than 100 rows and now holds the newest 100.
C23_TrimmedToLimit ==
    /\ resp.handler = "maintain_image_limit"
    /\ connLog[1].stmt = "ok"
    /\ LET b == connLog[1].call.conn IN
       /\ Cardinality(images[b]) = ImageLimit
       /\ nextId[b] - 1 = ImageLimit + MaxOver
       /\ \A r \in images[b] : r.id > 1

\* C24: when the application's init_db has run on a database it reached and
\* whose statements run, that database holds the images table with the
\* description column and the upload_date index, whatever it held before,
\* on either backend, and the rows it held are kept.
C24_InitDbCompletesSchema ==
    [][(/\ resp'.handler = "init_db"
        /\ connLog'[1].call.conn # "none"
        /\ connLog'[1].stmt = "ok")
       => /\ schema'[connLog'[1].call.conn] = Complete
          /\ images' = images
      ]_vars

\* C25: under every value of DATABASE_TYPE a run of init_db.py or
\* quick_init_db.py works on the backend the application starts with, and
\* no run of a script (db_manager.py included) changes the schema of the
\* other backend.
C25_ScriptsUseAppBackend ==
    [][/\ script' # script => script'.backend = AppBackend(DATABASE_TYPE)
       /\ (script' # script \/ cli' # cli)
          => \A b \in Backends \ {AppBackend(DATABASE_TYPE)} :
               schema'[b] = schema[b]
      ]_vars

C27_NeverExceedsTarget ==
    uploader.successful_uploads <= uploader.target_uploads

\* C27: successful_uploads never exceeds target_uploads when the target is
\* not negative, and stays 0 when it is; each batch submits at least one and
\* at most target_uploads - successful_uploads tasks; the loop is left
\* exactly at a test that finds successful_uploads at the target, or by an
\* interrupt or an error, and while results are None the next test submits
\* another batch.
C27_UploadLoop ==
    [][LET u == uploader
           v == uploader'
       IN  /\ v.successful_uploads <= Max(v.target_uploads, 0)
           /\ v.successful_uploads >= u.successful_uploads
              \/ u.pc \in {"idle", "ended"}
           /\ (u.pc = "while" /\ v.pc = "collect")
              => /\ v.batch_size >= 1
                 /\ v.batch_size <= u.target_uploads - u.successful_uploads
                 /\ v.pending = v.batch_size
                 /\ u.successful_uploads < u.target_uploads
           /\ v.pc = "collect"
              => v.pending + v.successful_uploads <= v.target_uploads
           /\ (u.pc = "while" /\ v # u
               /\ u.successful_uploads >= u.target_uploads)
              => v.pc = "ended"
           /\ (v.pc = "ended" /\ u.pc \in {"while", "collect"})
              => \/ /\ v.outcome = "complete"
                    /\ u.pc = "while"
                    /\ v.successful_uploads = Max(v.target_uploads, 0)
                 \/ v.outcome \in {"interrupted", "error"}
      ]_vars

\* A run that ended complete after a batch in which every result was None
\* and a later batch that reached the target.
C27_CompletedAfterFailures ==
    /\ uploader.pc = "ended"
    /\ uploader.outcome = "complete"
    /\ uploader.target_uploads = MaxUploadTarget
    /\ uploader.successful_uploads = uploader.target_uploads
    /\ uploader.attempt > 1 + uploader.target_uploads

\* C28: run_setup runs its eight steps in their order whatever the earlier
\* steps returned, and returns True exactly when no step returned False; the
\* database step is never among the failed steps.
C28_AllStepsRun ==
    /\ setup.pc # "escaped"
    /\ setup.ran = [k \in 1..Len(setup.ran) |-> k]
    /\ \A j \in 1..Len(setup.failed_steps) : setup.failed_steps[j] # 6
    /\ setup.pc = "done"
       => /\ Len(setup.ran) = StepCount
          /\ setup.result = (setup.failed_steps = << >>)

====
